---------------------------- MODULE Spec2Model ----------------------------
(***************************************************************************)
(* Model of the chart upload REST handler of jos-deployment                *)
(* (cmd/helm/main.go, handleChartUpload) and of the registry push client   *)
(* (pkg/helm, PushChartToHarbor).                                          *)
(*                                                                         *)
(* Strings are sequences of tokens.  File names are sequences of one       *)
(* character tokens; fixed fragments of messages and URLs that the code    *)
(* never looks into are single tokens.                                     *)
(***************************************************************************)
EXTENDS Integers, Sequences, FiniteSets, TLC

(***************************************************************************)
(* Bounds of the model.                                                    *)
(***************************************************************************)
\* largest number of bytes in an uploaded chart (io.Copy moves one byte per round)
MaxBytes == 2
\* longest stem of a file name fed to the file name parser
MaxStem == 5

\* the upload requests, each handled on its own goroutine
Reqs == {1, 2}
Byte == {0, 1}

(***************************************************************************)
(* String helpers, as the Go standard library computes them.               *)
(***************************************************************************)
\* strings.HasSuffix
HasSuffix(s, suf) ==
    /\ Len(s) >= Len(suf)
    /\ SubSeq(s, Len(s) - Len(suf) + 1, Len(s)) = suf

\* strings.TrimSuffix: removes one trailing occurrence of suf, if there is one
TrimSuffix(s, suf) ==
    IF HasSuffix(s, suf) THEN SubSeq(s, 1, Len(s) - Len(suf)) ELSE s

\* strings.Index for a one character separator: 0 when absent
Index(s, c) ==
    IF \E i \in 1..Len(s) : s[i] = c
    THEN CHOOSE i \in 1..Len(s) : s[i] = c /\ \A j \in 1..(i - 1) : s[j] # c
    ELSE 0

\* strings.SplitN(s, sep, 2): at most two pieces, cut at the first separator
SplitN2(s, sep) ==
    IF Index(s, sep) = 0
    THEN <<s>>
    ELSE <<SubSeq(s, 1, Index(s, sep) - 1), SubSeq(s, Index(s, sep) + 1, Len(s))>>

\* filepath.Ext: the suffix starting at the last dot of the last path element
RECURSIVE ExtFrom(_, _)
ExtFrom(path, i) ==
    IF i < 1 \/ path[i] = "/" THEN <<>>
    ELSE IF path[i] = "." THEN SubSeq(path, i, Len(path))
    ELSE ExtFrom(path, i - 1)

Ext(path) == ExtFrom(path, Len(path))

\* whether sub occurs in s as a contiguous run of tokens
Contains(s, sub) ==
    \E i \in 0..(Len(s) - Len(sub)) : SubSeq(s, i + 1, i + Len(sub)) = sub

\* fmt's %d for a non-negative integer
Digit(d) == <<"0", "1", "2", "3", "4", "5", "6", "7", "8", "9">>[d + 1]

RECURSIVE Dec(_)
Dec(n) == IF n < 10 THEN <<Digit(n)>> ELSE Dec(n \div 10) \o <<Digit(n % 10)>>

(***************************************************************************)
(* The file name parser of handleChartUpload.                              *)
(***************************************************************************)
Tgz == <<".", "t", "g", "z">>
FallbackVersion == <<"1", ".", "0", ".", "0">>

\* chartName := strings.SplitN(fileName, "-", 2)[0]
ChartName(fileName) == SplitN2(fileName, "-")[1]

\* the version between the first '-' and ".tgz", or the fallback
ChartVersionAfterLastDash(fileName) ==
    IF Len(SplitN2(fileName, "-")) > 1
    THEN LET last == CHOOSE i \in 1..Len(fileName) :
                        /\ fileName[i] = "-"
                        /\ \A j \in (i + 1)..Len(fileName) : fileName[j] # "-"
         IN  TrimSuffix(SubSeq(fileName, last + 1, Len(fileName)), Tgz)
    ELSE FallbackVersion
ChartVersionNoFallback(fileName) ==
    IF Len(SplitN2(fileName, "-")) > 1
    THEN TrimSuffix(SplitN2(fileName, "-")[2], Tgz)
    ELSE <<>>
ChartVersion(fileName) ==
    IF Len(SplitN2(fileName, "-")) > 1
    THEN TrimSuffix(SplitN2(fileName, "-")[2], Tgz)
    ELSE FallbackVersion

\* chartFileName := fmt.Sprintf("%s-%s.tgz", chartName, chartVersion)
ChartFileName(name, version) == name \o <<"-">> \o version \o Tgz


(***************************************************************************)
(* The digest.  crypto/sha256 is modelled by a running fold that is free   *)
(* of collisions on the byte strings of the model; hasher.Write folds one  *)
(* chunk into the state and hasher.Sum reads the state out.                *)
(***************************************************************************)
HashModulus == 256
HashIV == 0

\* hasher.Write(chunk)
RECURSIVE HashWrite(_, _)
HashWriteSkip(h, chunk) == h
HashWrite(h, chunk) ==
    IF chunk = <<>> THEN h
    ELSE HashWrite((h * 3 + Head(chunk) + 1) % HashModulus, Tail(chunk))

\* sha256.Sum256 of a whole byte string
RECURSIVE Sha256(_)
Sha256(bytes) ==
    IF bytes = <<>> THEN HashIV
    ELSE (Sha256(SubSeq(bytes, 1, Len(bytes) - 1)) * 3 + bytes[Len(bytes)] + 1) % HashModulus

\* fmt's %x of the one byte digest: two hexadecimal digits
HexDigit(d) ==
    <<"0", "1", "2", "3", "4", "5", "6", "7", "8", "9", "a", "b", "c", "d", "e", "f">>[d + 1]
Hex(h) == <<HexDigit(h \div 16), HexDigit(h % 16)>>

\* fmt.Sprintf("sha256:%x", hasher.Sum(nil))
DigestString(h) == <<"sha256:">> \o Hex(h)

(***************************************************************************)
(* The registry entry and the registry push client.                        *)
(***************************************************************************)
DefaultHarborURL == <<"https://harbor.joiningos.com", "/chartrepo/", "library">>
\* the entry named "harbor" of /opt/helm/repositories.yaml replaces the default
ConfiguredHarborURL == <<"https://harbor.joiningos.com", "/chartrepo/", "apps">>
HarborURLs == {DefaultHarborURL, ConfiguredHarborURL}

\* repoName := "library"
DefaultRepoName == <<"library">>

\* harborApiUrl of PushChartToHarbor
HarborApiUrl(url, repoName) ==
    TrimSuffix(url, <<"/chartrepo/", "library">>)
        \o <<"/api", "/chartrepo/">> \o repoName \o <<"/charts">>

\* the chart URL PushChartToHarbor returns
ChartUrlByRepo(url, repoName, fileName) ==
    TrimSuffix(url, <<"/chartrepo/", "library">>)
        \o <<"/chartrepo/">> \o repoName \o <<"/charts/">> \o fileName
ChartUrl(url, repoName, fileName) == url \o <<"/charts/">> \o fileName

\* resp.StatusCode < 200 || resp.StatusCode >= 300
RegistryRejected(code) == code < 200 \/ code >= 300

\* the error PushChartToHarbor returns for a rejected push
HarborApiErrorNoBody(code, body) ==
    <<"harbor API error: status ">> \o Dec(code)
HarborApiError(code, body) ==
    <<"harbor API error: status ">> \o Dec(code) \o <<", body: ">> \o body

\* what the registry may answer
RegistryCodes == {201, 300, 401}
RegistryBodies == {<<"u">>, <<"n", "o">>}

(***************************************************************************)
(* Requests and responses.                                                 *)
(***************************************************************************)
Methods == {"POST", "GET"}

\* file names the clients upload
UploadNames ==
    { <<"n", "-", "1", ".", "t", "g", "z">>,
      <<"n", ".", "t", "g", "z">>,
      <<"n", "-", "1", ".", "z", "i", "p">> }

NoResp == [status |-> 0, success |-> FALSE, message |-> <<>>,
           chart_url |-> <<>>, size_received |-> 0, digest |-> <<>>]

\* the UploadResponse writeErrorResponse builds
ErrorResponseImplicitOK(statusCode, message) ==
    [status |-> 200, success |-> FALSE, message |-> message,
     chart_url |-> <<>>, size_received |-> 0, digest |-> <<>>]
ErrorResponse(statusCode, message) ==
    [status |-> statusCode, success |-> FALSE, message |-> message,
     chart_url |-> <<>>, size_received |-> 0, digest |-> <<>>]

\* the UploadResponse of the success path
SuccessResponse(chartUrl, size, h) ==
    [status |-> 200, success |-> TRUE, message |-> <<"Chart uploaded successfully">>,
     chart_url |-> chartUrl, size_received |-> size, digest |-> DigestString(h)]

StatusMethodNotAllowed == 405
StatusBadRequest == 400
StatusInternalServerError == 500

(***************************************************************************)
(* State.                                                                  *)
(***************************************************************************)
VARIABLES
    pc,            \* position of each request's handler
    method,        \* r.Method, "" until the handler looked at it
    fileName,      \* header.Filename, <<>> until r.FormFile returned it
    chartName,     \* derived name
    chartVersion,  \* derived version
    tempFilePath,  \* name of the staging file under the staging directory
    received,      \* bytes of the chart field read so far
    written,       \* bytes this request wrote through tempFile
    hasher,        \* state of the sha256 accumulator
    size,          \* result of io.Copy
    didMkdir,      \* the handler called os.MkdirAll
    created,       \* os.Create succeeded (the deferred cleanup is registered)
    fdOpen,        \* tempFile is open
    fdIno,         \* the file tempFile refers to, 0 when none
    removed,       \* the deferred os.Remove ran
    posts,         \* POSTs this request sent to the registry
    resp,          \* the response written to the ResponseWriter
    errAt,         \* the call whose error ended the handler, "" when none
    rejected,      \* the non-2xx answer the registry gave to this request
    dirExists,     \* the staging directory exists
    dir,           \* staging directory: entries [name, ino]
    content,       \* file -> bytes
    harborURL,     \* harborEntry.URL
    parseIn,       \* file name handed to the parser
    parseOut,      \* name and version the parser derived
    form,          \* the optional string fields of the multipart form
    pushTarget,    \* the URL this request posted the chart to, <<>> when none
    traffic,       \* CreateRoute: the traffic argument
    route,         \* CreateRoute: the ApisixRoute handed to the cluster
    listReq,       \* ListInstalledCharts: the request and what Helm answers
    listResp,      \* ListInstalledCharts: what the RPC returned
    podOwners,     \* GetDeployListFromPod: pod.OwnerReferences
    rsStore,       \* GetDeployListFromPod: the ReplicaSets of the namespace
    deployResp,    \* GetDeployListFromPod: what the RPC returned
    ipc,           \* InstallChart: position of each request
    helmRelease,   \* InstallChart: the release stored under the release name
    installRet,    \* InstallChart: what each request returned
    installReq,    \* InstallChart: namespace, dry_run and values of each request
    helmCalls,     \* InstallChart: the Helm actions each request ran
    rpcReq,        \* the other handlers: the request and what the cluster holds
    rpcResp,       \* the other handlers: the return and what the cluster holds after
    gpc,           \* CreateOrUpdateRoute: position of each call
    gwArgs,        \* CreateOrUpdateRoute: arHttp and arStream of each call
    gwStore,       \* CreateOrUpdateRoute: the ApisixRoute stored in the cluster
    gwExisting,    \* CreateOrUpdateRoute: the object each call's Get returned
    gwRet          \* CreateOrUpdateRoute: the error each call returned

reqVars == <<method, fileName, chartName, chartVersion, tempFilePath, received,
             written, hasher, size, didMkdir, created, fdOpen, fdIno, removed,
             posts, resp, errAt, rejected>>
fsVars == <<dirExists, dir, content>>
parseVars == <<parseIn, parseOut>>
formVars == <<form, pushTarget>>
routeVars == <<traffic, route>>
listVars == <<listReq, listResp>>
podVars == <<podOwners, rsStore, deployResp>>
installVars == <<ipc, helmRelease, installRet, installReq, helmCalls>>
gwVars == <<gpc, gwArgs, gwStore, gwExisting, gwRet>>
rpcVars == <<rpcReq, rpcResp>>
clusterVars == <<routeVars, listVars, podVars, installVars, gwVars, rpcVars>>
uploadVars == <<pc, reqVars, fsVars, harborURL, parseVars, formVars>>
vars == <<uploadVars, clusterVars>>

\* the optional fields chart_name, chart_version and repo_name; <<>> is a
\* field the client left out
NoFields == [chart_name |-> <<>>, chart_version |-> <<>>, repo_name |-> <<>>]
AllFields == [chart_name |-> <<"x">>, chart_version |-> <<"2">>, repo_name |-> <<"apps">>]
FormFieldSets == {NoFields, AllFields}

NoAnswer == [code |-> 0, body |-> <<>>]
NoTraffic == [isNil |-> TRUE, weights |-> <<>>]
NoRoute == [built |-> FALSE]
InitRoute ==
    /\ traffic = NoTraffic
    /\ route = NoRoute

NoParse == [name |-> <<>>, version |-> <<>>, done |-> FALSE]

InitHandlers ==
    /\ pc = [r \in Reqs |-> "method"]
    /\ method = [r \in Reqs |-> ""]
    /\ fileName = [r \in Reqs |-> <<>>]
    /\ chartName = [r \in Reqs |-> <<>>]
    /\ chartVersion = [r \in Reqs |-> <<>>]
    /\ tempFilePath = [r \in Reqs |-> <<>>]
    /\ received = [r \in Reqs |-> <<>>]
    /\ written = [r \in Reqs |-> <<>>]
    /\ hasher = [r \in Reqs |-> HashIV]
    /\ size = [r \in Reqs |-> 0]
    /\ didMkdir = [r \in Reqs |-> FALSE]
    /\ created = [r \in Reqs |-> FALSE]
    /\ fdOpen = [r \in Reqs |-> FALSE]
    /\ fdIno = [r \in Reqs |-> 0]
    /\ removed = [r \in Reqs |-> FALSE]
    /\ posts = [r \in Reqs |-> 0]
    /\ resp = [r \in Reqs |-> NoResp]
    /\ errAt = [r \in Reqs |-> ""]
    /\ rejected = [r \in Reqs |-> NoAnswer]
    /\ dir = {}
    /\ content = [r \in Reqs |-> <<>>]
    /\ form = [r \in Reqs |-> NoFields]
    /\ pushTarget = [r \in Reqs |-> <<>>]

\* the handlers that talk to the cluster, before any call to them
NoListReq == [namespace |-> "", initErr |-> FALSE, releases |-> <<>>,
              listErr |-> FALSE]
NoListResp == [returned |-> FALSE]
InitList ==
    /\ listReq = NoListReq
    /\ listResp = NoListResp

OwnerNames == {"a", "b"}
NoReplicaSet == [found |-> FALSE, owners |-> <<>>]
NoDeployResp == [returned |-> FALSE]
InitPod ==
    /\ podOwners = <<>>
    /\ rsStore = [n \in OwnerNames |-> NoReplicaSet]
    /\ deployResp = NoDeployResp

NoRelease == [exists |-> FALSE]
NoInstallRet == [returned |-> FALSE]
NoInstallReq == [namespace |-> "", dryRun |-> FALSE, values |-> ""]
InitInstall ==
    /\ ipc = [r \in Reqs |-> "idle"]
    /\ helmRelease = NoRelease
    /\ installRet = [r \in Reqs |-> NoInstallRet]
    /\ installReq = [r \in Reqs |-> NoInstallReq]
    /\ helmCalls = [r \in Reqs |-> <<>>]

NoApisixRoute == [exists |-> FALSE]
NoRoutes == [http |-> <<>>, stream |-> <<>>]
InitGateway ==
    /\ gpc = [r \in Reqs |-> "idle"]
    /\ gwArgs = [r \in Reqs |-> NoRoutes]
    /\ gwStore = NoApisixRoute
    /\ gwExisting = [r \in Reqs |-> NoApisixRoute]
    /\ gwRet = [r \in Reqs |-> ""]

\* the handlers of one call each: ListCharts, ListRoutes, CreateRoute of the
\* Ingress service, DeleteComponment, CreateComponment, CreateApisixRoute and
\* ListNodes
RpcNames == {"charts", "routes", "ingress", "delete", "comp", "apisix", "nodes"}
NoRpcReq == [h \in RpcNames |-> <<>>]
NoRpcResp == [h \in RpcNames |-> [returned |-> FALSE]]
InitRpc ==
    /\ rpcReq = NoRpcReq
    /\ rpcResp = NoRpcResp

InitCluster ==
    /\ InitRpc
    /\ InitRoute
    /\ InitList
    /\ InitPod
    /\ InitInstall
    /\ InitGateway

\* the upload handler with no request in flight
InitUploadIdle ==
    /\ InitHandlers
    /\ dirExists = FALSE
    /\ harborURL = DefaultHarborURL
    /\ parseIn = <<>>
    /\ parseOut = NoParse

Init ==
    /\ InitHandlers
    /\ dirExists \in BOOLEAN
    /\ harborURL \in HarborURLs
    /\ parseIn = <<>>
    /\ parseOut = NoParse
    /\ InitCluster


(***************************************************************************)
(* The file system under the staging directory.                            *)
(***************************************************************************)
Linked(name) == \E e \in dir : e.name = name
InoOf(name) == (CHOOSE e \in dir : e.name = name).ino

\* a write of chunk at offset off: bytes past the end leave a hole of zeros
RECURSIVE Zeros(_)
Zeros(n) == IF n <= 0 THEN <<>> ELSE <<0>> \o Zeros(n - 1)

WriteAt(bytes, off, chunk) ==
    IF off >= Len(bytes)
    THEN bytes \o Zeros(off - Len(bytes)) \o chunk
    ELSE SubSeq(bytes, 1, off) \o chunk
         \o SubSeq(bytes, off + Len(chunk) + 1, Len(bytes))

(***************************************************************************)
(* handleChartUpload, one action per step of the handler.                  *)
(***************************************************************************)
\* writeErrorResponse(w, statusCode, message), followed by the return
Fail(r, call, statusCode, message) ==
    /\ resp' = [resp EXCEPT ![r] = ErrorResponse(statusCode, message)]
    /\ errAt' = [errAt EXCEPT ![r] = call]
    /\ pc' = [pc EXCEPT ![r] = "responded"]

\* if r.Method != http.MethodPost
CheckMethod(r) ==
    /\ pc[r] = "method"
    /\ \E m \in Methods :
        /\ method' = [method EXCEPT ![r] = m]
        /\ IF m # "POST"
           THEN Fail(r, "", StatusMethodNotAllowed, <<"Only POST method is allowed">>)
           ELSE /\ pc' = [pc EXCEPT ![r] = "parse"]
                /\ UNCHANGED <<resp, errAt>>
    /\ UNCHANGED <<fileName, chartName, chartVersion, tempFilePath, received,
                   written, hasher, size, didMkdir, created, fdOpen, fdIno,
                   removed, posts, rejected, fsVars, harborURL, parseVars, formVars, clusterVars>>

\* r.ParseMultipartForm(32 << 20); fieldSets are the combinations of optional
\* fields the client may have sent
ParseMultipartForm(r, fieldSets) ==
    /\ pc[r] = "parse"
    /\ \/ /\ Fail(r, "ParseMultipartForm", StatusBadRequest,
                  <<"Failed to parse multipart form: ", "parse error">>)
          /\ UNCHANGED form
       \/ /\ \E f \in fieldSets : form' = [form EXCEPT ![r] = f]
          /\ pc' = [pc EXCEPT ![r] = "formfile"]
          /\ UNCHANGED <<resp, errAt>>
    /\ UNCHANGED <<method, fileName, chartName, chartVersion, tempFilePath, received,
                   written, hasher, size, didMkdir, created, fdOpen, fdIno,
                   removed, posts, rejected, fsVars, harborURL, parseVars,
                   pushTarget, clusterVars>>

\* r.FormFile("chart")
FormFile(r) ==
    /\ pc[r] = "formfile"
    /\ \/ /\ Fail(r, "FormFile", StatusBadRequest,
                  <<"Failed to get chart file: ", "http: no such file">>)
          /\ UNCHANGED fileName
       \/ \E f \in UploadNames :
            /\ fileName' = [fileName EXCEPT ![r] = f]
            /\ pc' = [pc EXCEPT ![r] = "derive"]
            /\ UNCHANGED <<resp, errAt>>
    /\ UNCHANGED <<method, chartName, chartVersion, tempFilePath, received,
                   written, hasher, size, didMkdir, created, fdOpen, fdIno,
                   removed, posts, rejected, fsVars, harborURL, parseVars, formVars, clusterVars>>

\* the file name parser and the extension check
DeriveFromFields(r) ==
    /\ pc[r] = "derive"
    /\ chartName' = [chartName EXCEPT ![r] =
                       IF form[r].chart_name # <<>> THEN form[r].chart_name
                       ELSE ChartName(fileName[r])]
    /\ chartVersion' = [chartVersion EXCEPT ![r] =
                          IF form[r].chart_version # <<>> THEN form[r].chart_version
                          ELSE ChartVersion(fileName[r])]
    /\ IF Ext(fileName[r]) # Tgz
       THEN Fail(r, "", StatusBadRequest, <<"Only .tgz files are allowed">>)
       ELSE /\ pc' = [pc EXCEPT ![r] = "mkdir"]
            /\ UNCHANGED <<resp, errAt>>
    /\ UNCHANGED <<method, fileName, tempFilePath, received,
                   written, hasher, size, didMkdir, created, fdOpen, fdIno,
                   removed, posts, rejected, fsVars, harborURL, parseVars,
                   formVars, clusterVars>>
DeriveNoValidate(r) ==
    /\ pc[r] = "derive"
    /\ chartName' = [chartName EXCEPT ![r] = ChartName(fileName[r])]
    /\ chartVersion' = [chartVersion EXCEPT ![r] = ChartVersion(fileName[r])]
    /\ pc' = [pc EXCEPT ![r] = "mkdir"]
    /\ UNCHANGED <<method, fileName, tempFilePath, received,
                   written, hasher, size, didMkdir, created, fdOpen, fdIno,
                   removed, posts, resp, errAt, rejected, fsVars, harborURL,
                   parseVars, formVars, clusterVars>>
DeriveAndValidate(r) ==
    /\ pc[r] = "derive"
    /\ chartName' = [chartName EXCEPT ![r] = ChartName(fileName[r])]
    /\ chartVersion' = [chartVersion EXCEPT ![r] = ChartVersion(fileName[r])]
    /\ IF Ext(fileName[r]) # Tgz
       THEN Fail(r, "", StatusBadRequest, <<"Only .tgz files are allowed">>)
       ELSE /\ pc' = [pc EXCEPT ![r] = "mkdir"]
            /\ UNCHANGED <<resp, errAt>>
    /\ UNCHANGED <<method, fileName, tempFilePath, received,
                   written, hasher, size, didMkdir, created, fdOpen, fdIno,
                   removed, posts, rejected, fsVars, harborURL, parseVars, formVars, clusterVars>>

\* os.MkdirAll(tempDir, 0755)
MkdirAllNoReturn(r) ==
    /\ pc[r] = "mkdir"
    /\ didMkdir' = [didMkdir EXCEPT ![r] = TRUE]
    /\ tempFilePath' = [tempFilePath EXCEPT
                          ![r] = ChartFileName(chartName[r], chartVersion[r])]
    /\ pc' = [pc EXCEPT ![r] = "create"]
    /\ \/ /\ resp' = [resp EXCEPT ![r] =
                         ErrorResponse(StatusInternalServerError,
                           <<"Failed to create temp directory: ", "mkdir error">>)]
          /\ errAt' = [errAt EXCEPT ![r] = "MkdirAll"]
          /\ UNCHANGED dirExists
       \/ /\ dirExists' = TRUE
          /\ UNCHANGED <<resp, errAt>>
    /\ UNCHANGED <<method, fileName, chartName, chartVersion, received,
                   written, hasher, size, created, fdOpen, fdIno,
                   removed, posts, rejected, dir, content, harborURL, parseVars,
                   formVars, clusterVars>>
MkdirAll(r) ==
    /\ pc[r] = "mkdir"
    /\ didMkdir' = [didMkdir EXCEPT ![r] = TRUE]
    /\ \/ /\ Fail(r, "MkdirAll", StatusInternalServerError,
                  <<"Failed to create temp directory: ", "mkdir error">>)
          /\ UNCHANGED <<dirExists, tempFilePath>>
       \/ /\ dirExists' = TRUE
          /\ tempFilePath' = [tempFilePath EXCEPT
                                ![r] = ChartFileName(chartName[r], chartVersion[r])]
          /\ pc' = [pc EXCEPT ![r] = "create"]
          /\ UNCHANGED <<resp, errAt>>
    /\ UNCHANGED <<method, fileName, chartName, chartVersion, received,
                   written, hasher, size, created, fdOpen, fdIno,
                   removed, posts, rejected, dir, content, harborURL, parseVars, formVars, clusterVars>>

\* os.Create(tempFilePath): opens the file of that name, creating it when it
\* is absent, and truncates it; on success the cleanup is deferred
Create(r) ==
    /\ pc[r] = "create"
    /\ \/ /\ Fail(r, "Create", StatusInternalServerError,
                  <<"Failed to create temp file: ", "create error">>)
          /\ UNCHANGED <<created, fdOpen, fdIno, dir, content>>
       \/ /\ created' = [created EXCEPT ![r] = TRUE]
          /\ fdOpen' = [fdOpen EXCEPT ![r] = TRUE]
          /\ IF Linked(tempFilePath[r])
             THEN /\ fdIno' = [fdIno EXCEPT ![r] = InoOf(tempFilePath[r])]
                  /\ content' = [content EXCEPT ![InoOf(tempFilePath[r])] = <<>>]
                  /\ UNCHANGED dir
             ELSE /\ fdIno' = [fdIno EXCEPT ![r] = r]
                  /\ content' = [content EXCEPT ![r] = <<>>]
                  /\ dir' = dir \cup {[name |-> tempFilePath[r], ino |-> r]}
          /\ pc' = [pc EXCEPT ![r] = "copy"]
          /\ UNCHANGED <<resp, errAt>>
    /\ UNCHANGED <<method, fileName, chartName, chartVersion, tempFilePath, received,
                   written, hasher, size, didMkdir, removed, posts, rejected,
                   dirExists, harborURL, parseVars, formVars, clusterVars>>

\* one round of io.Copy(multiWriter, file): read a chunk, write it to
\* tempFile, then to the hasher
CopyChunk(r) ==
    /\ pc[r] = "copy"
    /\ Len(received[r]) < MaxBytes
    /\ \E b \in Byte :
        /\ received' = [received EXCEPT ![r] = @ \o <<b>>]
        /\ \/ /\ Fail(r, "Copy", StatusInternalServerError,
                      <<"Failed to save file: ", "write error">>)
              /\ UNCHANGED <<written, hasher, content>>
           \/ /\ content' = [content EXCEPT
                               ![fdIno[r]] = WriteAt(@, Len(written[r]), <<b>>)]
              /\ written' = [written EXCEPT ![r] = @ \o <<b>>]
              /\ hasher' = [hasher EXCEPT ![r] = HashWrite(@, <<b>>)]
              /\ UNCHANGED <<pc, resp, errAt>>
    /\ UNCHANGED <<method, fileName, chartName, chartVersion, tempFilePath,
                   size, didMkdir, created, fdOpen, fdIno, removed, posts, rejected,
                   dirExists, dir, harborURL, parseVars, formVars, clusterVars>>

\* io.Copy reaches the end of the upload and returns the byte count
CopyEOF(r) ==
    /\ pc[r] = "copy"
    /\ size' = [size EXCEPT ![r] = Len(written[r])]
    /\ pc' = [pc EXCEPT ![r] = "close"]
    /\ UNCHANGED <<method, fileName, chartName, chartVersion, tempFilePath, received,
                   written, hasher, didMkdir, created, fdOpen, fdIno, removed,
                   posts, resp, errAt, rejected, fsVars, harborURL, parseVars, formVars, clusterVars>>

\* tempFile.Close() before the push
CloseTempAndRemove(r) ==
    /\ pc[r] = "close"
    /\ fdOpen' = [fdOpen EXCEPT ![r] = FALSE]
    /\ removed' = [removed EXCEPT ![r] = TRUE]
    /\ dir' = {e \in dir : e.name # tempFilePath[r]}
    /\ pc' = [pc EXCEPT ![r] = "push"]
    /\ UNCHANGED <<method, fileName, chartName, chartVersion, tempFilePath, received,
                   written, hasher, size, didMkdir, created, fdIno,
                   posts, resp, errAt, rejected, dirExists, content, harborURL,
                   parseVars, formVars, clusterVars>>
CloseTemp(r) ==
    /\ pc[r] = "close"
    /\ fdOpen' = [fdOpen EXCEPT ![r] = FALSE]
    /\ pc' = [pc EXCEPT ![r] = "push"]
    /\ UNCHANGED <<method, fileName, chartName, chartVersion, tempFilePath, received,
                   written, hasher, size, didMkdir, created, fdIno, removed,
                   posts, resp, errAt, rejected, fsVars, harborURL, parseVars, formVars, clusterVars>>


\* a push that tries again after a transport failure
PushWithRetry(r) ==
    /\ pc[r] = "push"
    /\ \/ /\ ~Linked(tempFilePath[r])
          /\ Fail(r, "PushChartToHarbor", StatusInternalServerError,
                  <<"Failed to push to Harbor: ", "failed to open file: ",
                    "no such file or directory">>)
          /\ UNCHANGED <<posts, rejected, pushTarget>>
       \/ /\ Linked(tempFilePath[r])
          /\ posts[r] < 2
          /\ posts' = [posts EXCEPT ![r] = @ + 1]
          /\ pushTarget' = [pushTarget EXCEPT
                               ![r] = HarborApiUrl(harborURL, DefaultRepoName)]
          /\ \/ /\ posts[r] = 0
                /\ UNCHANGED <<pc, resp, errAt, rejected>>
             \/ /\ Fail(r, "PushChartToHarbor", StatusInternalServerError,
                        <<"Failed to push to Harbor: ", "failed to send request: ",
                          "transport error">>)
                /\ UNCHANGED rejected
             \/ /\ resp' = [resp EXCEPT ![r] =
                               SuccessResponse(
                                 ChartUrl(harborURL, DefaultRepoName, tempFilePath[r]),
                                 size[r], hasher[r])]
                /\ pc' = [pc EXCEPT ![r] = "responded"]
                /\ UNCHANGED <<errAt, rejected>>
    /\ UNCHANGED <<method, fileName, chartName, chartVersion, tempFilePath, received,
                   written, hasher, size, didMkdir, created, fdOpen, fdIno, removed,
                   fsVars, harborURL, parseVars, form, clusterVars>>

\* a push that answers from an earlier successful upload of the same chart
PushDeduplicated(r) ==
    /\ pc[r] = "push"
    /\ \/ /\ \E q \in Reqs \ {r} :
                 resp[q].status = 200 /\ tempFilePath[q] = tempFilePath[r]
          /\ UNCHANGED <<posts, pushTarget>>
       \/ /\ ~\E q \in Reqs \ {r} :
                 resp[q].status = 200 /\ tempFilePath[q] = tempFilePath[r]
          /\ posts' = [posts EXCEPT ![r] = @ + 1]
          /\ pushTarget' = [pushTarget EXCEPT
                               ![r] = HarborApiUrl(harborURL, DefaultRepoName)]
    /\ resp' = [resp EXCEPT ![r] =
                   SuccessResponse(ChartUrl(harborURL, DefaultRepoName, tempFilePath[r]),
                                   size[r], hasher[r])]
    /\ pc' = [pc EXCEPT ![r] = "responded"]
    /\ UNCHANGED <<method, fileName, chartName, chartVersion, tempFilePath, received,
                   written, hasher, size, didMkdir, created, fdOpen, fdIno, removed,
                   errAt, rejected, fsVars, harborURL, parseVars, form, clusterVars>>

\* helm.PushChartToHarbor(tempFilePath, repoName, chartFileName) and the
\* response that follows it
PushChartToHarbor(r) ==
    /\ pc[r] = "push"
    /\ \/ /\ ~Linked(tempFilePath[r])
          /\ Fail(r, "PushChartToHarbor", StatusInternalServerError,
                  <<"Failed to push to Harbor: ", "failed to open file: ",
                    "no such file or directory">>)
          /\ UNCHANGED <<posts, rejected, pushTarget>>
       \/ /\ Linked(tempFilePath[r])
          /\ posts' = [posts EXCEPT ![r] = @ + 1]
          /\ pushTarget' = [pushTarget EXCEPT
                               ![r] = HarborApiUrl(harborURL, DefaultRepoName)]
          /\ \/ /\ Fail(r, "PushChartToHarbor", StatusInternalServerError,
                        <<"Failed to push to Harbor: ", "failed to send request: ",
                          "transport error">>)
                /\ UNCHANGED rejected
             \/ \E code \in RegistryCodes, body \in RegistryBodies :
                  IF RegistryRejected(code)
                  THEN /\ Fail(r, "PushChartToHarbor", StatusInternalServerError,
                               <<"Failed to push to Harbor: ">> \o HarborApiError(code, body))
                       /\ rejected' = [rejected EXCEPT
                                         ![r] = [code |-> code, body |-> body]]
                  ELSE /\ resp' = [resp EXCEPT ![r] =
                                     SuccessResponse(
                                       ChartUrl(harborURL, DefaultRepoName, tempFilePath[r]),
                                       size[r], hasher[r])]
                       /\ pc' = [pc EXCEPT ![r] = "responded"]
                       /\ UNCHANGED <<errAt, rejected>>
    /\ UNCHANGED <<method, fileName, chartName, chartVersion, tempFilePath, received,
                   written, hasher, size, didMkdir, created, fdOpen, fdIno, removed,
                   fsVars, harborURL, parseVars, form, clusterVars>>

\* the deferred tempFile.Close() and os.Remove(tempFilePath)
DeferredCleanupCloseOnly(r) ==
    IF created[r]
    THEN /\ fdOpen' = [fdOpen EXCEPT ![r] = FALSE]
         /\ removed' = [removed EXCEPT ![r] = TRUE]
         /\ UNCHANGED dir
    ELSE UNCHANGED <<fdOpen, removed, dir>>
DeferredCleanup(r) ==
    IF created[r]
    THEN /\ fdOpen' = [fdOpen EXCEPT ![r] = FALSE]
         /\ removed' = [removed EXCEPT ![r] = TRUE]
         /\ dir' = {e \in dir : e.name # tempFilePath[r]}
    ELSE UNCHANGED <<fdOpen, removed, dir>>

\* the handler returns: its deferred calls run
Return(r) ==
    /\ pc[r] = "responded"
    /\ DeferredCleanup(r)
    /\ pc' = [pc EXCEPT ![r] = "returned"]
    /\ UNCHANGED <<method, fileName, chartName, chartVersion, tempFilePath, received,
                   written, hasher, size, didMkdir, created, fdIno, posts, resp,
                   errAt, rejected, dirExists, content, harborURL, parseVars, formVars, clusterVars>>

Next ==
    \E r \in Reqs :
        \/ CheckMethod(r)
        \/ ParseMultipartForm(r, {NoFields})
        \/ FormFile(r)
        \/ DeriveAndValidate(r)
        \/ MkdirAll(r)
        \/ Create(r)
        \/ CopyChunk(r)
        \/ CopyEOF(r)
        \/ CloseTemp(r)
        \/ PushChartToHarbor(r)
        \/ Return(r)

Spec == Init /\ [][Next]_vars

\* uploads one after the other, with or without the optional form fields: a
\* request is taken up only when no other request is being handled
Idle(r) == pc[r] \in {"method", "returned"}

NextSeq ==
    \E r \in Reqs :
        \/ CheckMethod(r) /\ \A q \in Reqs \ {r} : Idle(q)
        \/ ParseMultipartForm(r, FormFieldSets)
        \/ FormFile(r)
        \/ DeriveAndValidate(r)
        \/ MkdirAll(r)
        \/ Create(r)
        \/ CopyChunk(r)
        \/ CopyEOF(r)
        \/ CloseTemp(r)
        \/ PushChartToHarbor(r)
        \/ Return(r)

SpecSeq == Init /\ [][NextSeq]_vars

(***************************************************************************)
(* The file name parser on its own, over all short file names.             *)
(***************************************************************************)
StemChars == {"n", "1", "-", "."}
Suffixes == {Tgz, <<".", "z", "i", "p">>, <<>>}

RECURSIVE SeqsUpTo(_, _)
SeqsUpTo(S, n) ==
    IF n = 0 THEN {<<>>}
    ELSE SeqsUpTo(S, n - 1)
         \cup {s \o <<c>> : s \in {t \in SeqsUpTo(S, n - 1) : Len(t) = n - 1}, c \in S}

ParseNames == {s \o e : s \in SeqsUpTo(StemChars, MaxStem), e \in Suffixes}

InitParse ==
    /\ InitHandlers
    /\ dirExists = FALSE
    /\ harborURL = DefaultHarborURL
    /\ parseIn \in ParseNames
    /\ parseOut = NoParse
    /\ InitCluster

\* lines 65-78 of handleChartUpload applied to parseIn
ParseFileName ==
    /\ ~parseOut.done
    /\ parseOut' = [name |-> ChartName(parseIn),
                    version |-> ChartVersion(parseIn),
                    done |-> TRUE]
    /\ UNCHANGED <<pc, reqVars, fsVars, harborURL, parseIn, formVars, clusterVars>>

NextParse == ParseFileName

SpecParse == InitParse /\ [][NextParse]_vars


(***************************************************************************)
(* Properties of the upload handler.                                       *)
(***************************************************************************)
Responded(r) == pc[r] \in {"responded", "returned"}
InFlightWithFile(r) == created[r] /\ pc[r] \in {"copy", "close", "push"}

\* C1: once a handler has returned, the staging file it opened is not in the
\* staging directory, whatever path the handler left by.
StagingFileGone ==
    \A r \in Reqs :
        pc[r] = "returned" /\ created[r] => \A e \in dir : e.ino # fdIno[r]

\* both handlers returned after creating a staging file, one with success
\* and one after a failed staging write
StagingFileGoneWitness ==
    \E r1, r2 \in Reqs :
        /\ pc[r1] = "returned" /\ created[r1] /\ resp[r1].status = 200
        /\ pc[r2] = "returned" /\ created[r2] /\ errAt[r2] = "Copy"

\* C2: two requests that both hold a staging file and have not returned
\* never use the same staging file name, so neither can truncate, overwrite
\* or delete the other's file.
ExclusiveStagingFile ==
    \A r1, r2 \in Reqs :
        r1 # r2 /\ InFlightWithFile(r1) /\ InFlightWithFile(r2)
            => tempFilePath[r1] # tempFilePath[r2] /\ fdIno[r1] # fdIno[r2]

StatusCodesExact ==
    \A r \in Reqs :
        Responded(r) =>
            LET s == resp[r].status
                badName == fileName[r] # <<>> /\ ~HasSuffix(fileName[r], Tgz)
                badForm == errAt[r] \in {"ParseMultipartForm", "FormFile"}
                ioError == errAt[r] \in {"MkdirAll", "Create", "Copy", "PushChartToHarbor"}
            IN  /\ s \in {200, 400, 405, 500}
                /\ (s = 405) <=> (method[r] # "POST")
                /\ (s = 400) <=> (method[r] = "POST" /\ (badForm \/ badName))
                /\ (s = 500) <=> ioError
                /\ (s = 200) <=> (method[r] = "POST" /\ ~badForm /\ ~badName /\ ~ioError)
                /\ resp[r].success <=> (s = 200)

\* one request was answered 500 for a failed push, the other 400 for its
\* file name
StatusCodesWitness ==
    \E r1, r2 \in Reqs :
        /\ Responded(r1) /\ resp[r1].status = 500 /\ errAt[r1] = "PushChartToHarbor"
        /\ Responded(r2) /\ resp[r2].status = 400 /\ fileName[r2] # <<>>

\* C5: on success the digest is "sha256:" and the hex digest of the bytes
\* received, which are the bytes written to the staging file and the bytes
\* counted in size_received.
DigestOfReceivedBytes ==
    \A r \in Reqs :
        Responded(r) /\ resp[r].status = 200
            => /\ resp[r].digest = <<"sha256:">> \o Hex(Sha256(received[r]))
               /\ written[r] = received[r]
               /\ resp[r].size_received = Len(received[r])

\* a chart of two different bytes was uploaded successfully
DigestWitness ==
    \E r \in Reqs :
        /\ resp[r].status = 200
        /\ received[r] = <<1, 0>>
        /\ resp[r].digest = <<"sha256:", "0", "7">>

\* C6: when the registry answers with a non-2xx status, the response is 500,
\* not a success, and its message contains the status code and the
\* registry's body.
RegistryFailureReported ==
    \A r \in Reqs :
        rejected[r] # NoAnswer
            => /\ Responded(r)
               /\ resp[r].status = 500 /\ ~resp[r].success
               /\ resp[r].chart_url = <<>> /\ resp[r].digest = <<>>
               /\ Contains(resp[r].message, Dec(rejected[r].code))
               /\ Contains(resp[r].message, rejected[r].body)

\* the registry answered 401 with body "no"
RegistryFailureWitness ==
    \E r \in Reqs :
        /\ rejected[r] = [code |-> 401, body |-> <<"n", "o">>]
        /\ Contains(resp[r].message, <<"4", "0", "1">>)

\* C7 as stated: whenever a response has been written by a handler that
\* created a staging file, that handler has already removed the file.
ReleasedBeforeResponse ==
    \A r \in Reqs : Responded(r) /\ created[r] => removed[r]

\* C7 amended: the staging file is removed by the deferred cleanup, after the
\* response was written and as the handler returns; a handler that created
\* a staging file has closed and removed it once it has returned.
ReleasedAtReturn ==
    \A r \in Reqs :
        /\ removed[r] => resp[r] # NoResp /\ pc[r] = "returned"
        /\ pc[r] = "returned" /\ created[r] => removed[r] /\ ~fdOpen[r]

\* a handler returned after a successful upload and removed its staging file
ReleasedAtReturnWitness ==
    \E r \in Reqs : pc[r] = "returned" /\ removed[r] /\ resp[r].status = 200

(***************************************************************************)
(* Properties of the file name parser.                                     *)
(***************************************************************************)
\* C8: for a name of the form <name>-<rest>.tgz the derived name is what
\* precedes the first '-' and the derived version is what lies between that
\* '-' and the trailing .tgz.
NameVersionSplit ==
    parseOut.done /\ HasSuffix(parseIn, Tgz) /\ Contains(parseIn, <<"-">>)
        => /\ parseIn = parseOut.name \o <<"-">> \o parseOut.version \o Tgz
           /\ ~Contains(parseOut.name, <<"-">>)

\* n-1-1.tgz gives name n and version 1-1
NameVersionSplitWitness ==
    /\ parseOut.done
    /\ parseIn = <<"n", "-", "1", "-", "1">> \o Tgz
    /\ parseOut.name = <<"n">>
    /\ parseOut.version = <<"1", "-", "1">>

\* C9: a .tgz name without '-' gets the version 1.0.0.
NoDashVersionFallback ==
    parseOut.done /\ HasSuffix(parseIn, Tgz) /\ ~Contains(parseIn, <<"-">>)
        => parseOut.version = <<"1", ".", "0", ".", "0">>

\* n.tgz was parsed
NoDashVersionWitness ==
    /\ parseOut.done
    /\ parseIn = <<"n">> \o Tgz
    /\ parseOut.version = <<"1", ".", "0", ".", "0">>

(***************************************************************************)
(* The chart URL.                                                          *)
(***************************************************************************)
\* C10 as stated: chart_url is <registry base>/chartrepo/<repoName>/charts/
\* followed by the file name the client uploaded.
ChartUrlFromUploadedName ==
    \A r \in Reqs :
        resp[r].status = 200
            => resp[r].chart_url =
                 TrimSuffix(harborURL, <<"/chartrepo/", "library">>)
                    \o <<"/chartrepo/">> \o DefaultRepoName
                    \o <<"/charts/">> \o fileName[r]

\* C10 amended: chart_url is harborEntry.URL, "/charts/" and the staged file
\* name <derived name>-<derived version>.tgz, which is the uploaded file name
\* when that contains a '-' and the uploaded file name followed by
\* -1.0.0.tgz when it does not; repoName does not enter the URL.
ChartUrlFromStagedName ==
    \A r \in Reqs :
        resp[r].status = 200
            => /\ resp[r].chart_url = harborURL \o <<"/charts/">> \o tempFilePath[r]
               /\ Contains(fileName[r], <<"-">>) => tempFilePath[r] = fileName[r]
               /\ ~Contains(fileName[r], <<"-">>)
                    => tempFilePath[r] =
                         fileName[r] \o <<"-", "1", ".", "0", ".", "0", ".", "t", "g", "z">>

\* n.tgz was uploaded successfully with the configured registry entry
ChartUrlWitness ==
    \E r \in Reqs :
        /\ resp[r].status = 200
        /\ fileName[r] = <<"n">> \o Tgz
        /\ harborURL = ConfiguredHarborURL
        /\ resp[r].chart_url =
             <<"https://harbor.joiningos.com", "/chartrepo/", "apps", "/charts/",
               "n", ".", "t", "g", "z", "-", "1", ".", "0", ".", "0", ".", "t", "g", "z">>


(***************************************************************************)
(* The registry push and the form fields of the upload handler.            *)
(***************************************************************************)
\* C11: a request posts to the registry at most once, only after io.Copy
\* finished and tempFile was closed, and the outcome of that one POST is the
\* response: a transport failure or a non-2xx answer gives the 500 at once.
PushNeverRetried ==
    \A r \in Reqs :
        /\ posts[r] <= 1
        /\ posts[r] = 1
             => /\ Responded(r)
                /\ ~fdOpen[r]
                /\ written[r] = received[r] /\ size[r] = Len(received[r])
                /\ resp[r].status # 200
                     => resp[r].status = 500 /\ errAt[r] = "PushChartToHarbor"

\* the one POST of a request failed in transport and the request was answered
PushNeverRetriedWitness ==
    \E r \in Reqs :
        /\ posts[r] = 1
        /\ pc[r] = "returned"
        /\ Contains(resp[r].message, <<"failed to send request: ">>)

RepoNameSelectsProject ==
    \A r \in Reqs :
        posts[r] >= 1
            => pushTarget[r] =
                 TrimSuffix(harborURL, <<"/chartrepo/", "library">>)
                    \o <<"/api", "/chartrepo/">>
                    \o (IF form[r].repo_name = <<>> THEN <<"library">>
                        ELSE form[r].repo_name)
                    \o <<"/charts">>

OneOutcomeStep ==
    \A r \in Reqs : resp[r] # NoResp => resp'[r] = resp[r]

OneOutcome ==
    /\ [](\A r \in Reqs : Responded(r) <=> resp[r] # NoResp)
    /\ [][OneOutcomeStep]_vars

\* one handler returned with a success response, the other with an error
OneOutcomeWitness ==
    \E r1, r2 \in Reqs :
        /\ pc[r1] = "returned" /\ resp[r1].status = 200 /\ resp[r1].success
        /\ pc[r2] = "returned" /\ resp[r2].status = 500 /\ ~resp[r2].success


(***************************************************************************)
(* apisixManagerImpl.CreateRoute: the weighted-traffic route builder.      *)
(***************************************************************************)
MaxWeight == 2

\* serviceName, servicePort and upstreamName of the call
RouteArgs == [serviceName |-> "svc", servicePort |-> 80, upstreamName |-> "stable"]
Upstreams == {"stable", "canary", "next"}
Weights == -1 .. MaxWeight

\* the traffic argument: nil, or a map from upstream names to weights
TrafficInputs ==
    {NoTraffic} \cup
    {[isNil |-> FALSE, weights |-> w] :
        w \in UNION {[S -> Weights] : S \in SUBSET Upstreams}}

\* the orders in which a range over a map with keys S can visit them
Orders(S) ==
    {o \in [1 .. Cardinality(S) -> S] : \A i, j \in DOMAIN o : o[i] = o[j] => i = j}

DefaultBackend ==
    [serviceName |-> RouteArgs.serviceName, servicePort |-> RouteArgs.servicePort,
     upstream |-> RouteArgs.upstreamName, hasWeight |-> FALSE, weight |-> 0]
WeightedBackend(u, w) ==
    [serviceName |-> RouteArgs.serviceName, servicePort |-> RouteArgs.servicePort,
     upstream |-> u, hasWeight |-> TRUE, weight |-> w]

\* if w <= 0 { continue }
KeepEntryZero(w) == ~(w < 0)
KeepEntry(w) == ~(w <= 0)

RECURSIVE WeightedBackends(_, _)
WeightedBackends(order, weights) ==
    IF order = <<>> THEN <<>>
    ELSE LET u == Head(order)
             rest == WeightedBackends(Tail(order), weights)
         IN  IF KeepEntry(weights[u])
             THEN <<WeightedBackend(u, weights[u])>> \o rest
             ELSE rest

\* backendObj: one map for the default backend, a list for weighted ones
SingleBackend == [single |-> TRUE, backends |-> <<DefaultBackend>>]
BackendObj(t, order) ==
    IF Cardinality(DOMAIN t.weights) = 0 THEN SingleBackend
    ELSE LET backends == WeightedBackends(order, t.weights)
         IN  IF Len(backends) = 0 THEN SingleBackend
             ELSE [single |-> FALSE, backends |-> backends]

CreateRouteError == <<"failed to create ApisixRoute: ", "err">>

CreateRoute ==
    /\ ~route.built
    /\ \E order \in Orders(DOMAIN traffic.weights), failed \in BOOLEAN :
         route' = [built |-> TRUE,
                   backend |-> BackendObj(traffic, order),
                   err |-> IF failed THEN CreateRouteError ELSE <<>>]
    /\ UNCHANGED <<uploadVars, traffic, listVars, podVars, installVars, gwVars, rpcVars>>

InitRouteCall ==
    /\ InitUploadIdle
    /\ InitRpc
    /\ traffic \in TrafficInputs
    /\ route = NoRoute
    /\ InitList
    /\ InitPod
    /\ InitInstall
    /\ InitGateway

NextRoute == CreateRoute

SpecRoute == InitRouteCall /\ [][NextRoute]_vars

PositiveEntries == {u \in DOMAIN traffic.weights : traffic.weights[u] > 0}

\* C16: CreateRoute drops every traffic entry whose weight is <= 0; with at
\* least one positive weight the backends are exactly the positive-weight
\* entries, each with its own upstream name and weight; with a nil or empty
\* map, or no positive weight, the route has the single default backend
\* pointing at upstreamName, and the only error the call can return is the
\* cluster's answer to Create.
RouteBackendsPositive ==
    route.built =>
        /\ PositiveEntries # {} =>
             /\ ~route.backend.single
             /\ Len(route.backend.backends) = Cardinality(PositiveEntries)
             /\ \A i \in DOMAIN route.backend.backends :
                  LET b == route.backend.backends[i]
                  IN  /\ b.upstream \in PositiveEntries
                      /\ b = WeightedBackend(b.upstream, traffic.weights[b.upstream])
             /\ \A u \in PositiveEntries :
                  \E i \in DOMAIN route.backend.backends :
                      route.backend.backends[i].upstream = u
        /\ PositiveEntries = {} =>
             /\ route.backend.single
             /\ route.backend.backends = <<DefaultBackend>>
             /\ DefaultBackend.upstream = RouteArgs.upstreamName
        /\ route.err \in {<<>>, CreateRouteError}

RouteBackendsWitness ==
    /\ route.built
    /\ route.err = <<>>
    /\ Cardinality(PositiveEntries) = 2
    /\ \E u \in DOMAIN traffic.weights : traffic.weights[u] = 0
    /\ Len(route.backend.backends) = 2


(***************************************************************************)
(* HelmManagerServer.ListInstalledCharts.                                  *)
(***************************************************************************)
MaxReleases == 2

Namespaces == {"ns1", "ns2"}

\* what list.Run can hand back: the namespaces of up to MaxReleases releases
ReleaseLists == SeqsUpTo(Namespaces, MaxReleases)

\* the request (its namespace, "" when unset) and the answers of the calls
\* the handler makes: actionConfig.Init, list.Run and anypb.New
ListRequests ==
    [namespace : {""} \cup {"ns1"}, initErr : BOOLEAN, releases : ReleaseLists,
     listErr : BOOLEAN, marshalErr : BOOLEAN]

ListError(code, message, ran) ==
    [returned |-> TRUE, ok |-> FALSE, grpcCode |-> code, Code |-> 0,
     Success |-> FALSE, Message |-> message, ran |-> ran]
ListSuccess(message) ==
    [returned |-> TRUE, ok |-> TRUE, grpcCode |-> "OK", Code |-> 0,
     Success |-> TRUE, Message |-> message, ran |-> TRUE]

\* the releases the loop at lines 687-706 keeps
RECURSIVE ChartInfos(_, _)
ChartInfos(releases, namespace) ==
    IF releases = <<>> THEN <<>>
    ELSE IF namespace # "" /\ Head(releases) # namespace
         THEN ChartInfos(Tail(releases), namespace)
         ELSE <<Head(releases)>> \o ChartInfos(Tail(releases), namespace)

ListInstalledChartsResponse(q) ==
    IF q.namespace = ""
    THEN ListError("Internal", <<"namespace is required">>, FALSE)
    ELSE IF q.initErr
    THEN ListError("Internal", <<"initialize helm action failed: ", "err">>, FALSE)
    ELSE IF Len(q.releases) = 0
    THEN ListSuccess(<<"No installed charts found">>)
    ELSE IF q.listErr
    THEN ListError("Internal", <<"list installed charts failed: ", "err">>, TRUE)
    ELSE IF q.marshalErr /\ Len(ChartInfos(q.releases, q.namespace)) > 0
    THEN ListError("Internal", <<"marshal chart data failed: ", "err">>, TRUE)
    ELSE ListSuccess(<<"Found ", Len(ChartInfos(q.releases, q.namespace)),
                       " installed charts">>)

ListInstalledCharts ==
    /\ ~listResp.returned
    /\ listResp' = ListInstalledChartsResponse(listReq)
    /\ UNCHANGED <<uploadVars, listReq, routeVars, podVars, installVars, gwVars, rpcVars>>

InitListCall ==
    /\ InitUploadIdle
    /\ InitRpc
    /\ InitRoute
    /\ listReq \in ListRequests
    /\ listResp = NoListResp
    /\ InitPod
    /\ InitInstall
    /\ InitGateway

NextList == ListInstalledCharts

SpecList == InitListCall /\ [][NextList]_vars

\* C17: in ListInstalledCharts, whenever the Helm list action returns an
\* error the RPC returns an Internal error and never a success response
\* (Code 0, Success true).
ListErrorIsInternal ==
    (listResp.returned /\ listResp.ran /\ listReq.listErr) =>
        /\ ~listResp.ok
        /\ listResp.grpcCode = "Internal"
        /\ ~listResp.Success


(***************************************************************************)
(* RoutesManageService.GetDeployListFromPod.                               *)
(***************************************************************************)
MaxOwners == 2

\* an owner reference; controller is FALSE for a nil or false *bool
OwnerRef(name, kind, controller) ==
    [name |-> name, kind |-> kind, controller |-> controller]
PodOwnerRefs ==
    {OwnerRef(n, k, c) : n \in OwnerNames, k \in {"ReplicaSet", "StatefulSet"},
                         c \in BOOLEAN}
PodOwnerLists == SeqsUpTo(PodOwnerRefs, MaxOwners)

\* what ReplicaSets(namespace).Get answers for a name: an error, or a
\* ReplicaSet with these owner references
ReplicaSetAnswers ==
    {NoReplicaSet} \cup
    {[found |-> TRUE, owners |-> o] :
        o \in {<<>>,
               <<OwnerRef("d1", "Deployment", TRUE)>>,
               <<OwnerRef("d1", "Deployment", FALSE)>>,
               <<OwnerRef("x", "Rollout", TRUE), OwnerRef("d1", "Deployment", TRUE)>>,
               <<OwnerRef("d2", "Deployment", TRUE), OwnerRef("d1", "Deployment", TRUE)>>}}

\* lines 77-83: the loop variable after the walk over rs.OwnerReferences
RECURSIVE ReplaceByDeployment(_, _)
ReplaceByDeployment(owner, rsOwners) ==
    IF rsOwners = <<>> THEN owner
    ELSE LET rsOwner == Head(rsOwners)
         IN  IF rsOwner.controller /\ rsOwner.kind = "Deployment"
             THEN [owner EXCEPT !.name = rsOwner.name, !.kind = rsOwner.kind]
             ELSE ReplaceByDeployment(owner, Tail(rsOwners))

\* lines 91-92 read the loop variable owner, a copy of the slice element
OwnerReadFromSlice(owners, i, owner) == owners[i]
OwnerRead(owners, i, owner) == owner

DeployData(owner, serviceName) ==
    [DeployName |-> owner.name, Kind |-> owner.kind, ServiceName |-> serviceName]
DeployFailure(message) ==
    [returned |-> TRUE, Code |-> 1, Success |-> FALSE, Message |-> message,
     Data |-> <<>>]

\* the loop of lines 60-105 from element i on, and the return of lines 107-112
RECURSIVE DeployLoop(_, _, _, _)
DeployLoop(owners, i, data, serviceName) ==
    IF i > Len(owners)
    THEN [returned |-> TRUE, Code |-> 0, Success |-> TRUE,
          Message |-> <<"success">>, Data |-> data]
    ELSE LET owner == owners[i]
         IN  IF ~owner.controller
             THEN DeployFailure(<<"Pod owner is not a controller">>)
             ELSE IF owner.kind = "ReplicaSet" /\ ~rsStore[owner.name].found
             THEN DeployFailure(<<"failed to get ReplicaSet: ", "err">>)
             ELSE LET replaced ==
                          IF owner.kind = "ReplicaSet"
                          THEN ReplaceByDeployment(owner, rsStore[owner.name].owners)
                          ELSE owner
                  IN  DeployLoop(owners, i + 1,
                                 Append(data, DeployData(OwnerRead(owners, i, replaced),
                                                         serviceName)),
                                 serviceName)

GetDeployListFromPod ==
    /\ ~deployResp.returned
    /\ \E serviceName \in {<<>>, <<"web">>} :
         deployResp' = DeployLoop(podOwners, 1, <<>>, serviceName)
    /\ UNCHANGED <<uploadVars, podOwners, rsStore, routeVars, listVars,
                   installVars, gwVars, rpcVars>>

InitPodCall ==
    /\ InitUploadIdle
    /\ InitRpc
    /\ InitRoute
    /\ InitList
    /\ podOwners \in PodOwnerLists
    /\ rsStore \in [OwnerNames -> ReplicaSetAnswers]
    /\ deployResp = NoDeployResp
    /\ InitInstall
    /\ InitGateway

NextPod == GetDeployListFromPod

SpecPod == InitPodCall /\ [][NextPod]_vars

ControllingDeployments(rsOwners) ==
    {j \in DOMAIN rsOwners : rsOwners[j].controller /\ rsOwners[j].kind = "Deployment"}

\* C18: in the list GetDeployListFromPod returns, the entry of a controller
\* owner that is a ReplicaSet controlled by a Deployment has Kind
\* "Deployment" and DeployName the name of that Deployment (the first one
\* among the ReplicaSet's owners), and the entry of a controller owner of any
\* other kind has that owner's own name and kind.
DeploymentReported ==
    (deployResp.returned /\ deployResp.Success) =>
        /\ Len(deployResp.Data) = Len(podOwners)
        /\ \A i \in DOMAIN podOwners :
             LET o == podOwners[i]
                 e == deployResp.Data[i]
                 ds == ControllingDeployments(rsStore[o.name].owners)
             IN  /\ (o.kind = "ReplicaSet" /\ ds # {}) =>
                       /\ e.Kind = "Deployment"
                       /\ \E j \in ds :
                            /\ e.DeployName = rsStore[o.name].owners[j].name
                            /\ \A k \in ds : j <= k
                 /\ o.kind # "ReplicaSet" =>
                       /\ e.Kind = o.kind
                       /\ e.DeployName = o.name

DeploymentReportedWitness ==
    /\ deployResp.returned
    /\ deployResp.Success
    /\ Len(podOwners) = 2
    /\ podOwners[1].kind = "ReplicaSet"
    /\ deployResp.Data[1].Kind = "Deployment"
    /\ deployResp.Data[1].DeployName = "d2"
    /\ podOwners[2].kind = "StatefulSet"
    /\ deployResp.Data[2].Kind = "StatefulSet"


(***************************************************************************)
(* HelmManagerServer.InstallChart: requests for one release name in one    *)
(* namespace.                                                              *)
(***************************************************************************)
\* a release stored by the install of request r; r = 0 is an install that
\* finished before the requests modelled here
Release(r, status) == [exists |-> TRUE, owner |-> r, status |-> status]

\* the response and the error of a return; err is "nil" or the gRPC code
\* of the error, and a return with an error carries no response
InstallRet(code, message, err, installed) ==
    [returned |-> TRUE, Code |-> code, Message |-> message, err |-> err,
     installed |-> installed]

\* the requests: namespace, dry_run, and values that are empty, parse, or
\* do not parse
InstallRequests ==
    [namespace : {"", "ns"}, dryRun : BOOLEAN, values : {"", "valid", "invalid"}]

HelmCall(op, existed) == [op |-> op, existed |-> existed]

\* lines 295-358: the namespace check, the dry run, actionConfig.Init,
\* refreshChartRepository, LocateChart and loader.Load
PrepareInstallNoDryRun(r) ==
    /\ ipc[r] = "start"
    /\ IF installReq[r].namespace = ""
       THEN /\ ipc' = [ipc EXCEPT ![r] = "done"]
            /\ installRet' = [installRet EXCEPT ![r] =
                   InstallRet(0, <<"namespace is required">>, "InvalidArgument", FALSE)]
       ELSE \/ /\ ipc' = [ipc EXCEPT ![r] = "get"]
               /\ UNCHANGED installRet
            \/ /\ ipc' = [ipc EXCEPT ![r] = "done"]
               /\ installRet' = [installRet EXCEPT ![r] =
                      InstallRet(0, <<"err">>, "Unknown", FALSE)]
    /\ UNCHANGED <<uploadVars, helmRelease, installReq, helmCalls, routeVars,
                   listVars, podVars, gwVars, rpcVars>>
PrepareInstall(r) ==
    /\ ipc[r] = "start"
    /\ IF installReq[r].namespace = ""
       THEN /\ ipc' = [ipc EXCEPT ![r] = "done"]
            /\ installRet' = [installRet EXCEPT ![r] =
                   InstallRet(0, <<"namespace is required">>, "InvalidArgument", FALSE)]
       ELSE IF installReq[r].dryRun
       THEN /\ ipc' = [ipc EXCEPT ![r] = "done"]
            /\ installRet' = [installRet EXCEPT ![r] =
                   IF installReq[r].values = "invalid"
                   THEN InstallRet(0, <<"err">>, "Unknown", FALSE)
                   ELSE InstallRet(0, <<>>, "nil", FALSE)]
       ELSE \/ /\ ipc' = [ipc EXCEPT ![r] = "get"]
               /\ UNCHANGED installRet
            \/ /\ ipc' = [ipc EXCEPT ![r] = "done"]
               /\ installRet' = [installRet EXCEPT ![r] =
                      InstallRet(0, <<"err">>, "Unknown", FALSE)]
    /\ UNCHANGED <<uploadVars, helmRelease, installReq, helmCalls, routeVars,
                   listVars, podVars, gwVars, rpcVars>>

\* lines 361-371: get.Run(releaseName)
GetRelease(r) ==
    /\ ipc[r] = "get"
    /\ IF helmRelease.exists
       THEN /\ ipc' = [ipc EXCEPT ![r] = "done"]
            /\ installRet' = [installRet EXCEPT ![r] =
                   InstallRet(0, <<"Release already exists, skipping installation">>,
                              "nil", FALSE)]
       ELSE /\ ipc' = [ipc EXCEPT ![r] = "install"]
            /\ UNCHANGED installRet
    /\ helmCalls' = [helmCalls EXCEPT ![r] =
           Append(@, HelmCall("get", helmRelease.exists))]
    /\ UNCHANGED <<uploadVars, helmRelease, installReq, routeVars, listVars,
                   podVars, gwVars, rpcVars>>

\* lines 373-387 and 391-401: install.Run(chart, values).  Helm refuses a
\* name that is in use and stores nothing; otherwise the install stores the
\* release as deployed, stores it as failed, or fails before storing it.
InstallRun(r) ==
    /\ ipc[r] = "install"
    /\ \/ /\ ~helmRelease.exists
          /\ helmRelease' = Release(r, "deployed")
          /\ ipc' = [ipc EXCEPT ![r] = "done"]
          /\ installRet' = [installRet EXCEPT ![r] =
                 InstallRet(0, <<"Install complete">>, "nil", TRUE)]
       \/ /\ ~helmRelease.exists
          /\ helmRelease' \in {Release(r, "failed"), helmRelease}
          /\ ipc' = [ipc EXCEPT ![r] = "cleanup"]
          /\ UNCHANGED installRet
       \/ /\ helmRelease.exists
          /\ ipc' = [ipc EXCEPT ![r] = "cleanup"]
          /\ UNCHANGED <<helmRelease, installRet>>
    /\ helmCalls' = [helmCalls EXCEPT ![r] =
           Append(@, HelmCall("install", helmRelease.exists))]
    /\ UNCHANGED <<uploadVars, installReq, routeVars, listVars, podVars, gwVars, rpcVars>>

\* lines 377-384: uninstall.Run(releaseName), its result dropped, then the
\* failure response
CleanupUninstall(r) ==
    /\ ipc[r] = "cleanup"
    /\ helmRelease' = NoRelease
    /\ ipc' = [ipc EXCEPT ![r] = "done"]
    /\ installRet' = [installRet EXCEPT ![r] =
           InstallRet(1, <<"Failed to install chart: ", "err">>, "Unknown", FALSE)]
    /\ helmCalls' = [helmCalls EXCEPT ![r] =
           Append(@, HelmCall("uninstall", helmRelease.exists))]
    /\ UNCHANGED <<uploadVars, installReq, routeVars, listVars, podVars, gwVars, rpcVars>>

InitInstallCalls ==
    /\ InitUploadIdle
    /\ InitRpc
    /\ InitRoute
    /\ InitList
    /\ InitPod
    /\ ipc = [r \in Reqs |-> "start"]
    /\ helmRelease \in {NoRelease, Release(0, "deployed"), Release(0, "failed")}
    /\ installRet = [r \in Reqs |-> NoInstallRet]
    /\ installReq \in [Reqs -> InstallRequests]
    /\ helmCalls = [r \in Reqs |-> <<>>]
    /\ InitGateway

NextInstall ==
    \/ \E r \in Reqs : PrepareInstall(r)
    \/ \E r \in Reqs : GetRelease(r)
    \/ \E r \in Reqs : InstallRun(r)
    \/ \E r \in Reqs : CleanupUninstall(r)

SpecInstall == InitInstallCalls /\ [][NextInstall]_vars

\* C19: for any interleaving of two InstallChart requests for the same
\* release name and namespace, a release that one request installed
\* successfully is never uninstalled by the other request's failure cleanup.
InstalledReleaseKept ==
    \A r \in Reqs :
        (installRet[r].returned /\ installRet[r].installed) =>
            helmRelease = Release(r, "deployed")


(***************************************************************************)
(* Gateway.CreateOrUpdateRoute: calls for one name in one namespace.       *)
(***************************************************************************)
\* arHttp and arStream of a call
RouteArgSets ==
    {NoRoutes,
     [http |-> <<"h1">>, stream |-> <<>>],
     [http |-> <<"h2">>, stream |-> <<"s2">>]}

\* the stored object; the API server raises resourceVersion on every write
StoredRoute(http, stream, resourceVersion) ==
    [exists |-> TRUE, http |-> http, stream |-> stream,
     resourceVersion |-> resourceVersion]

GwReturn(r, err) ==
    /\ gpc' = [gpc EXCEPT ![r] = "done"]
    /\ gwRet' = [gwRet EXCEPT ![r] = err]

\* lines 68-79: NewForConfig, Get, and the check for empty routes
GetApisixRoute(r) ==
    /\ gpc[r] = "start"
    /\ \/ /\ GwReturn(r, "failed to create Apisix clientset")
          /\ UNCHANGED gwExisting
       \/ /\ gwStore.exists
          /\ gwExisting' = [gwExisting EXCEPT ![r] = gwStore]
          /\ gpc' = [gpc EXCEPT ![r] = "update"]
          /\ UNCHANGED gwRet
       \/ /\ ~gwStore.exists
          /\ UNCHANGED gwExisting
          /\ IF Len(gwArgs[r].http) = 0 /\ Len(gwArgs[r].stream) = 0
             THEN GwReturn(r, "no HTTP or Stream routes provided")
             ELSE /\ gpc' = [gpc EXCEPT ![r] = "create"]
                  /\ UNCHANGED gwRet
    /\ UNCHANGED <<uploadVars, gwArgs, gwStore, routeVars, listVars, podVars,
                   installVars, rpcVars>>

\* lines 81-95: Create; the API server refuses a name that exists
CreateApisixRoute(r) ==
    /\ gpc[r] = "create"
    /\ IF gwStore.exists
       THEN /\ GwReturn(r, "failed to create ApisixRoute")
            /\ UNCHANGED gwStore
       ELSE /\ gwStore' = StoredRoute(gwArgs[r].http, gwArgs[r].stream, 1)
            /\ GwReturn(r, "nil")
    /\ UNCHANGED <<uploadVars, gwArgs, gwExisting, routeVars, listVars, podVars,
                   installVars, rpcVars>>

\* lines 98-105: Update of the object Get returned; the API server refuses
\* an object whose resourceVersion is not the stored one
UpdateApisixRoute(r) ==
    /\ gpc[r] = "update"
    /\ IF gwStore.resourceVersion # gwExisting[r].resourceVersion
       THEN /\ GwReturn(r, "failed to update ApisixRoute")
            /\ UNCHANGED gwStore
       ELSE /\ gwStore' = StoredRoute(gwArgs[r].http, gwArgs[r].stream,
                                      gwStore.resourceVersion + 1)
            /\ GwReturn(r, "nil")
    /\ UNCHANGED <<uploadVars, gwArgs, gwExisting, routeVars, listVars, podVars,
                   installVars, rpcVars>>

InitGatewayCalls ==
    /\ InitUploadIdle
    /\ InitRpc
    /\ InitRoute
    /\ InitList
    /\ InitPod
    /\ InitInstall
    /\ gpc = [r \in Reqs |-> "start"]
    /\ gwArgs \in [Reqs -> RouteArgSets]
    /\ gwStore \in {NoApisixRoute, StoredRoute(<<"h0">>, <<>>, 1)}
    /\ gwExisting = [r \in Reqs |-> NoApisixRoute]
    /\ gwRet = [r \in Reqs |-> ""]

NextGateway ==
    \/ \E r \in Reqs : GetApisixRoute(r)
    \/ \E r \in Reqs : CreateApisixRoute(r)
    \/ \E r \in Reqs : UpdateApisixRoute(r)

SpecGateway == InitGatewayCalls /\ [][NextGateway]_vars

\* C20: for any interleaving of two concurrent CreateOrUpdateRoute calls with
\* the same name and namespace and non-empty routes, against a reachable
\* cluster, both calls return nil and the stored ApisixRoute's HTTP and Stream
\* rules equal the arguments of one of the two calls.
UpsertBothSucceed ==
    (\A r \in Reqs : /\ gpc[r] = "done"
                     /\ gwArgs[r] # NoRoutes
                     /\ gwRet[r] # "failed to create Apisix clientset") =>
        /\ \A r \in Reqs : gwRet[r] = "nil"
        /\ \E r \in Reqs : /\ gwStore.exists
                           /\ gwStore.http = gwArgs[r].http
                           /\ gwStore.stream = gwArgs[r].stream


(***************************************************************************)
(* InstallChart: when the install action runs, and what the other cases    *)
(* return.                                                                 *)
(***************************************************************************)
Ran(r, op) == \E i \in DOMAIN helmCalls[r] : helmCalls[r][i].op = op
ChangedNothing(r) == ~Ran(r, "install") /\ ~Ran(r, "uninstall")
ReturnedCodeZero(r) == installRet[r].Code = 0 /\ installRet[r].err = "nil"
FoundExisting(r) == HelmCall("get", TRUE) \in {helmCalls[r][i] : i \in DOMAIN helmCalls[r]}

InitRpcCall(h, reqs) ==
    /\ InitUploadIdle
    /\ InitRoute
    /\ InitList
    /\ InitPod
    /\ InitInstall
    /\ InitGateway
    /\ rpcReq \in {[NoRpcReq EXCEPT ![h] = q] : q \in reqs}
    /\ rpcResp = NoRpcResp

\* handler h returns ret
RpcReturn(h, ret) ==
    /\ ~rpcResp[h].returned
    /\ rpcResp' = [rpcResp EXCEPT ![h] = ret]
    /\ UNCHANGED <<uploadVars, routeVars, listVars, podVars, installVars, gwVars,
                   rpcReq>>

(***************************************************************************)
(* HelmManagerServer.ListCharts: paging with int32 arithmetic.             *)
(***************************************************************************)
MaxCharts == 3

\* int32 multiplication: the product modulo 2^32, read as a signed value.
\* The operands are cut into 16-bit halves, and those into bytes, so that
\* no intermediate value leaves the 32-bit range.
Half == 65536
Lo16(a) == a % Half
Hi16(a) == ((a - Lo16(a)) \div Half) % Half
MulLo16(x, y) ==
    ((((x \div 256) * (y % 256) + (x % 256) * (y \div 256)) % 256) * 256
        + (x % 256) * (y % 256)) % Half
MulHi16(x, y) ==
    LET t == ((x \div 256) * (y % 256) + (x % 256) * (y \div 256)) * 256
                 + (x % 256) * (y % 256)
    IN  ((x \div 256) * (y \div 256) + t \div Half) % Half
Int32(hi, lo) == IF hi >= Half \div 2 THEN (hi - Half) * Half + lo ELSE hi * Half + lo
Mul32(a, b) ==
    Int32((MulHi16(Lo16(a), Lo16(b)) + MulLo16(Hi16(a), Lo16(b))
              + MulLo16(Lo16(a), Hi16(b))) % Half,
          MulLo16(Lo16(a), Lo16(b)))

\* req.Limit and req.Size
PageInts == {-1, 0, 1, 2, 3, 32769, 65536, 65537, 2147483647}

\* chartInfos after sort.Slice: names in the order of their first letter
SortedCharts ==
    {c \in SeqsUpTo({<<"a">>, <<"b">>}, MaxCharts) :
        \A i \in 1 .. Len(c) - 1 : c[i] = <<"a">> \/ c[i + 1] = <<"b">>}

ChartsRequests ==
    [Limit : PageInts, Size : PageInts, Keyword : {<<>>, <<"a">>},
     charts : SortedCharts, loadErr : BOOLEAN, marshalErr : BOOLEAN]

ChartsFailure(err, code, message) ==
    [returned |-> TRUE, panic |-> FALSE, err |-> err, Code |-> code,
     Success |-> FALSE, Message |-> message, hasData |-> FALSE]

\* lines 260-271
RECURSIVE FilterCharts(_, _)
FilterCharts(charts, keyword) ==
    IF charts = <<>> THEN <<>>
    ELSE (IF Contains(Head(charts), keyword) THEN <<Head(charts)>> ELSE <<>>)
             \o FilterCharts(Tail(charts), keyword)

\* lines 242-249
PageStart(limit, pageSize, total) ==
    LET start == Mul32(limit - 1, pageSize)
    IN  IF start > total THEN total ELSE start
PageEnd(limit, pageSize, total) ==
    LET end == Mul32(limit, pageSize)
    IN  IF end > total THEN total ELSE end

ListChartsResponse(q) ==
    IF q.loadErr THEN ChartsFailure(TRUE, 0, <<>>)
    ELSE IF q.Limit <= 0 \/ q.Size <= 0
    THEN ChartsFailure(FALSE, 1, <<"Invalid limit or size">>)
    ELSE LET totalCharts == Len(q.charts)
             pageCount == totalCharts \div q.Size
                              + (IF totalCharts % q.Size # 0 THEN 1 ELSE 0)
             start == PageStart(q.Limit, q.Size, totalCharts)
             end == PageEnd(q.Limit, q.Size, totalCharts)
         IN  IF ~(0 <= start /\ start <= end /\ end <= totalCharts)
             THEN \* chartInfos[int(start):int(end)]: slice bounds out of range
                  [returned |-> TRUE, panic |-> TRUE, start |-> start, end |-> end]
             ELSE IF q.marshalErr
             THEN ChartsFailure(FALSE, 1, <<"Failed to marshal ListChartsData">>)
             ELSE LET pagedCharts == SubSeq(q.charts, start + 1, end)
                      Charts == IF q.Keyword # <<>>
                                THEN FilterCharts(pagedCharts, q.Keyword)
                                ELSE pagedCharts
                  IN  [returned |-> TRUE, panic |-> FALSE, err |-> FALSE,
                       Code |-> 0, Success |-> TRUE,
                       Message |-> <<"Charts retrieved successfully">>,
                       hasData |-> TRUE, start |-> start, end |-> end,
                       pagedCharts |-> pagedCharts, Charts |-> Charts,
                       Total |-> IF q.Keyword # <<>> THEN Len(Charts) ELSE totalCharts,
                       PageSize |-> q.Size, TotalPage |-> pageCount,
                       CurrentPage |-> q.Limit]

ListCharts == RpcReturn("charts", ListChartsResponse(rpcReq.charts))

NextCharts == ListCharts

SpecCharts == InitRpcCall("charts", ChartsRequests) /\ [][NextCharts]_vars

\* the positions of the sorted list that page limit of pages of pageSize charts holds
PagePositions(limit, pageSize, total) ==
    {p \in 1 .. total : (p - 1) \div pageSize = limit - 1}

\* C22: in ListCharts, for every Limit >= 1 and Size >= 1 and every chart
\* count, the page bounds satisfy 0 <= start <= end <= total, so the page
\* slice is in range, holds at most Size charts and is the charts at
\* positions (Limit-1)*Size up to Limit*Size of the sorted list; Limit <= 0
\* or Size <= 0 yields Code 1 and no data.
PageBoundsInRange ==
    LET q == rpcReq.charts
        a == rpcResp.charts
    IN  (a.returned /\ ~q.loadErr /\ ~q.marshalErr) =>
            IF q.Limit >= 1 /\ q.Size >= 1
            THEN /\ ~a.panic
                 /\ 0 <= a.start /\ a.start <= a.end /\ a.end <= Len(q.charts)
                 /\ a.end - a.start <= q.Size
                 /\ \A p \in 1 .. Len(q.charts) :
                      (a.start < p /\ p <= a.end)
                          <=> p \in PagePositions(q.Limit, q.Size, Len(q.charts))
                 /\ a.pagedCharts = SubSeq(q.charts, a.start + 1, a.end)
            ELSE a.Code = 1 /\ ~a.hasData


(***************************************************************************)
(* RoutesManageService.ListRoutes.                                         *)
(***************************************************************************)
MaxIngresses == 3

\* an Ingress: the hosts of its rules and the secret names of its TLS blocks
Ingresses ==
    [rules : {<<>>, <<"h1">>}, tls : {<<>>, <<"s1">>, <<"s1", "s2">>}]

\* the answer of Ingresses(namespace).List: an error or the items
RoutesRequests ==
    [listErr : BOOLEAN, items : SeqsUpTo(Ingresses, MaxIngresses)]

\* lines 647-680 from item i on; enableTLS is declared before the loop
RECURSIVE ListData(_, _, _)
ListData(items, i, enableTLS) ==
    IF i > Len(items) THEN <<>>
    ELSE LET ingress == items[i]
             routeRules == ingress.rules
             routeTLS == ingress.tls
             enabled == IF Len(ingress.tls) > 0 THEN TRUE ELSE enableTLS
         IN  <<[IngName |-> i, EnableTls |-> enabled, RouteTls |-> routeTLS,
                Rules |-> routeRules]>>
                 \o ListData(items, i + 1, enabled)

ListRoutesResponse(q) ==
    IF q.listErr
    THEN [returned |-> TRUE, err |-> TRUE, Code |-> 2, Success |-> FALSE,
          Data |-> <<>>]
    ELSE [returned |-> TRUE, err |-> FALSE, Code |-> 0, Success |-> TRUE,
          Data |-> ListData(q.items, 1, FALSE)]

ListRoutes == RpcReturn("routes", ListRoutesResponse(rpcReq.routes))

NextRoutes == ListRoutes

SpecRoutes == InitRpcCall("routes", RoutesRequests) /\ [][NextRoutes]_vars

\* C23: in ListRoutes, for every ingress in the namespace, the EnableTls
\* flag of its entry is true if and only if that ingress itself has at least
\* one TLS block, independent of the ingresses listed before it; its RouteTls
\* and Rules contain only that ingress's own TLS entries and rules.
EnableTlsPerIngress ==
    LET items == rpcReq.routes.items
        a == rpcResp.routes
    IN  (a.returned /\ a.Success) =>
            /\ Len(a.Data) = Len(items)
            /\ \A i \in DOMAIN items :
                 /\ a.Data[i].EnableTls <=> Len(items[i].tls) > 0
                 /\ a.Data[i].RouteTls = items[i].tls
                 /\ a.Data[i].Rules = items[i].rules


(***************************************************************************)
(* RoutesManageService.CreateRoute: the Ingress of a route.                *)
(***************************************************************************)
MaxRules == 2

\* the request (ing_name, the hosts of its rules, enable_tls, the secret
\* names of route_tls), whether the clientset could be built, and whether
\* the namespace already holds an Ingress named "web"
IngressRequests ==
    [IngName : {"", "web"}, Rules : SeqsUpTo({"h1", "h2"}, MaxRules),
     EnableTls : BOOLEAN, RouteTls : {<<>>, <<"s1">>},
     configErr : BOOLEAN, exists : BOOLEAN]

IngressError(code, message, call) ==
    [returned |-> TRUE, err |-> code, Code |-> 2, Success |-> FALSE,
     Message |-> message, call |-> call, written |-> FALSE]

\* lines 786-796: update after the loop over the rules
UpdateFlag(q) == Len(q.Rules) > 0 /\ q.IngName = "web" /\ q.exists

\* lines 825-844
IngressObject(q) ==
    [name |-> q.IngName, rules |-> q.Rules,
     tls |-> IF q.EnableTls THEN q.RouteTls ELSE <<>>]

\* the API server: Update needs the object to exist, Create needs a name
\* that is not empty and not taken
CreateRouteResponse(q) ==
    IF q.configErr
    THEN IngressError("Unknown", <<"failed to create Kubernetes clientset: ", "err">>,
                      "none")
    ELSE IF Len(q.Rules) > 0 /\ q.IngName = ""
    THEN IngressError("400", <<"ingress name cannot be empty">>, "none")
    ELSE IF UpdateFlag(q)
    THEN [returned |-> TRUE, err |-> "nil", Code |-> 0, Success |-> TRUE,
          Message |-> <<"Route created successfully">>, call |-> "Update",
          written |-> TRUE, object |-> IngressObject(q)]
    ELSE IF q.IngName = "" \/ (q.IngName = "web" /\ q.exists)
    THEN IngressError("Unknown", <<"failed to create ingress: ", "err">>, "Create")
    ELSE [returned |-> TRUE, err |-> "nil", Code |-> 0, Success |-> TRUE,
          Message |-> <<"Route created successfully">>, call |-> "Create",
          written |-> TRUE, object |-> IngressObject(q)]

CreateIngressRoute == RpcReturn("ingress", CreateRouteResponse(rpcReq.ingress))

NextIngress == CreateIngressRoute

SpecIngress == InitRpcCall("ingress", IngressRequests) /\ [][NextIngress]_vars

\* C24: CreateRoute (Ingress) with an empty ingress name is always rejected
\* with code 400 and writes nothing to the cluster, for every request
\* including one with an empty rule list; with a non-empty name it issues
\* Update exactly when an Ingress of that name already exists in the
\* namespace and Create otherwise.
EmptyNameRejected ==
    LET q == rpcReq.ingress
        a == rpcResp.ingress
    IN  (a.returned /\ ~q.configErr) =>
            /\ q.IngName = "" =>
                 /\ a.err = "400"
                 /\ a.call = "none"
                 /\ ~a.written
            /\ q.IngName # "" =>
                 /\ a.call = "Update" <=> q.exists
                 /\ a.call = "Create" <=> ~q.exists


(***************************************************************************)
(* RoutesManageService.DeleteComponment.                                   *)
(***************************************************************************)
\* whether Pods(namespace).Get, the clientset and the Delete call fail
DeleteRequests == [podErr : BOOLEAN, configErr : BOOLEAN, deleteErr : BOOLEAN]

DeleteError(message, call) ==
    [returned |-> TRUE, panic |-> FALSE, err |-> TRUE, Code |-> 0,
     Success |-> FALSE, Message |-> message, call |-> call]

\* lines 546-583, for a deployInfo with at least one entry
DeleteWorkload(q, first) ==
    IF first.Kind = "Deployment"
    THEN IF q.deleteErr
         THEN DeleteError(<<"failed to delete deployment: ", "err">>, "DeleteDeployment")
         ELSE [returned |-> TRUE, panic |-> FALSE, err |-> FALSE, Code |-> 0,
               Success |-> TRUE, Message |-> <<"success">>,
               call |-> "DeleteDeployment", target |-> first.DeployName]
    ELSE IF first.Kind = "StatefulSet"
    THEN IF q.deleteErr
         THEN DeleteError(<<"failed to delete statefulset: ", "err">>, "DeleteStatefulSet")
         ELSE [returned |-> TRUE, panic |-> FALSE, err |-> FALSE, Code |-> 0,
               Success |-> TRUE, Message |-> <<"success">>,
               call |-> "DeleteStatefulSet", target |-> first.DeployName]
    ELSE [returned |-> TRUE, panic |-> FALSE, err |-> FALSE, Code |-> 1,
          Success |-> FALSE, Message |-> <<"unsupported kind">>, call |-> "none"]

DeleteComponmentResponse(q, deployInfo) ==
    IF q.podErr
    THEN DeleteError(<<"failed to get deploy info from pod: ", "err">>, "none")
    ELSE IF q.configErr
    THEN DeleteError(<<"failed to create k8s clientset: ", "err">>, "none")
    ELSE IF Len(deployInfo.Data) = 0
    THEN \* deployInfo.Data[0]: index out of range
         [returned |-> TRUE, panic |-> TRUE, call |-> "none"]
    ELSE DeleteWorkload(q, deployInfo.Data[1])

DeleteComponment ==
    RpcReturn("delete",
              DeleteComponmentResponse(rpcReq.delete, DeployLoop(podOwners, 1, <<>>, <<>>)))

InitDeleteCall ==
    /\ InitUploadIdle
    /\ InitRoute
    /\ InitList
    /\ podOwners \in PodOwnerLists
    /\ rsStore \in [OwnerNames -> ReplicaSetAnswers]
    /\ deployResp = NoDeployResp
    /\ InitInstall
    /\ InitGateway
    /\ rpcReq \in {[NoRpcReq EXCEPT !["delete"] = q] : q \in DeleteRequests}
    /\ rpcResp = NoRpcResp

NextDelete == DeleteComponment

SpecDelete == InitDeleteCall /\ [][NextDelete]_vars

\* C25: DeleteComponment returns a response or a gRPC error for every pod:
\* when the owner lookup yields no entry (a pod with no owner references, or
\* a lookup answered with Code 1 and no data) it issues no delete call and
\* does not index the empty list; it deletes a workload only when the first
\* entry's kind is Deployment or StatefulSet.
DeleteNeverPanics ==
    LET a == rpcResp.delete
        deployInfo == DeployLoop(podOwners, 1, <<>>, <<>>)
    IN  a.returned =>
            /\ ~a.panic
            /\ Len(deployInfo.Data) = 0 => a.call = "none"
            /\ a.call # "none" =>
                   deployInfo.Data[1].Kind \in {"Deployment", "StatefulSet"}


(***************************************************************************)
(* RoutesManageService.CreateComponment.                                   *)
(***************************************************************************)
\* the request (whether a required field is empty, the kind in deploy_info)
\* and the answers of the cluster to the calls the handler makes
CompRequests ==
    [missing : BOOLEAN, kind : {"Deployment", "StatefulSet", "DaemonSet"},
     configErr : BOOLEAN, namespaceErr : BOOLEAN, workloadGetErr : BOOLEAN,
     workloadCreateErr : BOOLEAN, serviceGetErr : BOOLEAN,
     serviceCreateErr : BOOLEAN]

\* a return; created is what the call created in the cluster, calls the
\* clone steps it attempted
CompRet(failed, code, message, objects, calls) ==
    [returned |-> TRUE, err |-> failed, Code |-> code, Success |-> code = 0,
     Message |-> message, created |-> objects, calls |-> calls]

\* createDeployment and createSts: Get the workload, Create the copy
CloneWorkload(q) == ~q.workloadGetErr /\ ~q.workloadCreateErr

\* createService: Get the Service, Create the copy
CloneService(q) == ~q.serviceGetErr /\ ~q.serviceCreateErr

CreateComponmentResponse(q) ==
    IF q.missing THEN CompRet(FALSE, 1, <<"missing required fields">>, {}, <<>>)
    ELSE IF q.configErr
    THEN CompRet(TRUE, 1, <<"failed to create Kubernetes clientset: ", "err">>, {}, <<>>)
    ELSE IF q.namespaceErr
    THEN CompRet(TRUE, 1, <<"failed to get namespace: ", "err">>, {}, <<>>)
    ELSE IF q.kind \notin {"Deployment", "StatefulSet"}
    THEN CompRet(FALSE, 1, <<"unsupported controlledBy kind">>, {}, <<>>)
    ELSE IF ~CloneWorkload(q)
    THEN CompRet(TRUE, 1, <<"failed to create deployment: ", "err">>, {}, <<q.kind>>)
    ELSE IF ~CloneService(q)
    THEN CompRet(TRUE, 1, <<"failed to create service: ", "err">>, {q.kind},
                 <<q.kind, "Service">>)
    ELSE CompRet(FALSE, 0, <<"success">>, {q.kind, "Service"}, <<q.kind, "Service">>)

CreateComponment == RpcReturn("comp", CreateComponmentResponse(rpcReq.comp))

NextComp == CreateComponment

SpecComp == InitRpcCall("comp", CompRequests) /\ [][NextComp]_vars

\* C26: CreateComponment is all-or-nothing: whenever it returns an error or
\* a non-success response, no cloned Deployment/StatefulSet and no cloned
\* Service created by that call remains in the cluster; the Service clone is
\* attempted only after the workload clone succeeded.
CloneAllOrNothing ==
    LET a == rpcResp.comp
    IN  a.returned =>
            /\ (a.err \/ ~a.Success) => a.created = {}
            /\ (\E i \in DOMAIN a.calls : a.calls[i] = "Service") =>
                   /\ a.calls[1] = rpcReq.comp.kind
                   /\ rpcReq.comp.kind \in a.created


(***************************************************************************)
(* RoutesManageService.CreateApisixRoute.                                  *)
(***************************************************************************)
MaxHttpRules == 2

\* a backend of the request: service name, service port and weight
RequestBackends ==
    [ServiceName : {"service-a", "service-b"}, ServicePort : {80}, Weight : {30, 70}]

\* an HTTP rule of the request
RequestHttpRules == [Hosts : {"example.com"}, Backends : SeqsUpTo(RequestBackends, 2)]

ApisixRequests ==
    [Http : SeqsUpTo(RequestHttpRules, MaxHttpRules),
     Stream : {<<>>, <<[IngressPort |-> 9000, ServiceName |-> "service-a",
                        ServicePort |-> 80]>>},
     configErr : BOOLEAN, routeErr : BOOLEAN]

\* lines 33-39 of the handler: gateway.Backend built from a request backend;
\* Weight is left at its zero value
GatewayBackend(m) ==
    [ServiceName |-> m.ServiceName, ServicePort |-> m.ServicePort, Weight |-> 0]

RECURSIVE GatewayBackends(_)
GatewayBackends(ms) ==
    IF ms = <<>> THEN <<>>
    ELSE <<GatewayBackend(Head(ms))>> \o GatewayBackends(Tail(ms))

\* convertHttpBackends: w is a new variable in every iteration i, and the
\* backend holds its address
RECURSIVE ConvertHttpBackends(_, _)
ConvertHttpBackends(backends, i) ==
    IF i > Len(backends) THEN <<>>
    ELSE <<[ServiceName |-> backends[i].ServiceName,
            ServicePort |-> backends[i].ServicePort,
            Weight |-> [addr |-> i, value |-> backends[i].Weight]]>>
             \o ConvertHttpBackends(backends, i + 1)

\* lines 31-46 of the handler and ConvertHTTPRoutes
RECURSIVE ConvertHttp(_)
ConvertHttp(rules) ==
    IF rules = <<>> THEN <<>>
    ELSE <<[Name |-> <<"http-route-", Head(rules).Hosts>>,
            Hosts |-> <<Head(rules).Hosts>>,
            Backends |-> ConvertHttpBackends(GatewayBackends(Head(rules).Backends), 1)]>>
             \o ConvertHttp(Tail(rules))

\* lines 49-59 of the handler and ConvertStreamRoutes
RECURSIVE ConvertStream(_)
ConvertStream(routes) ==
    IF routes = <<>> THEN <<>>
    ELSE <<[Name |-> <<"stream-route-", Head(routes).IngressPort>>,
            IngressPort |-> Head(routes).IngressPort,
            ServiceName |-> Head(routes).ServiceName,
            ServicePort |-> Head(routes).ServicePort]>>
             \o ConvertStream(Tail(routes))

CreateApisixRouteResponse(q) ==
    IF q.configErr
    THEN [returned |-> TRUE, err |-> TRUE, written |-> FALSE,
          http |-> <<>>, stream |-> <<>>]
    ELSE IF q.routeErr
    THEN [returned |-> TRUE, err |-> TRUE, written |-> FALSE,
          http |-> ConvertHttp(q.Http), stream |-> ConvertStream(q.Stream)]
    ELSE [returned |-> TRUE, err |-> FALSE, written |-> TRUE,
          http |-> ConvertHttp(q.Http), stream |-> ConvertStream(q.Stream)]

HandleCreateApisixRoute ==
    RpcReturn("apisix", CreateApisixRouteResponse(rpcReq.apisix))

NextApisix == HandleCreateApisixRoute

SpecApisix == InitRpcCall("apisix", ApisixRequests) /\ [][NextApisix]_vars

\* C27: CreateApisixRoute preserves weighted routing: for every HTTP rule of
\* the request, each backend written to the ApisixRoute has the service
\* name, service port and weight that the request gave for that backend, and
\* distinct backends do not share one weight variable.
WeightsPreserved ==
    LET q == rpcReq.apisix
        a == rpcResp.apisix
    IN  (a.returned /\ a.written) =>
            /\ Len(a.http) = Len(q.Http)
            /\ \A r \in DOMAIN q.Http :
                 /\ Len(a.http[r].Backends) = Len(q.Http[r].Backends)
                 /\ \A i \in DOMAIN q.Http[r].Backends :
                      LET m == q.Http[r].Backends[i]
                          b == a.http[r].Backends[i]
                      IN  /\ b.ServiceName = m.ServiceName
                          /\ b.ServicePort = m.ServicePort
                          /\ b.Weight.value = m.Weight
                 /\ \A i, j \in DOMAIN a.http[r].Backends :
                      i # j => a.http[r].Backends[i].Weight.addr
                                   # a.http[r].Backends[j].Weight.addr


(***************************************************************************)
(* NodeManagerServer.ListNodes.                                            *)
(***************************************************************************)
MaxName == 4

\* a node: its name and the address of type InternalIP, <<>> when it has none
NodeNames == SeqsUpTo({"a", "b"}, MaxName)
NodeItems == [Name : NodeNames, InternalIp : {<<>>, <<"b", "a", "b">>}]

NodesRequests ==
    [Keyword : SeqsUpTo({"a", "b"}, 2), listErr : BOOLEAN,
     items : SeqsUpTo(NodeItems, 2)]

\* s[i:j] of Go, for 0 <= i <= j <= len(s)
Slice(s, i, j) == SubSeq(s, i + 1, j)

\* contains(s, substr) of node.go
contains(s, substr) ==
    \/ Len(substr) = 0
    \/ /\ Len(s) > 0
       /\ \/ s = substr
          \/ /\ Len(substr) > 0
             /\ Len(s) >= Len(substr)
             /\ \/ s = substr
                \/ /\ Len(s) > Len(substr)
                   /\ \/ Slice(s, 0, Len(substr)) = substr
                      \/ Slice(s, Len(s) - Len(substr), Len(s)) = substr
                      \/ /\ Len(s) > 2
                         /\ Slice(s, 1, Len(substr) + 1) = substr

\* lines 32-53
RECURSIVE FilterNodes(_, _)
FilterNodes(items, keyword) ==
    IF items = <<>> THEN <<>>
    ELSE LET n == Head(items)
         IN  (IF keyword = <<>>
                    \/ (keyword # <<>> /\ (contains(n.Name, keyword)
                                            \/ contains(n.InternalIp, keyword)))
              THEN <<n>> ELSE <<>>) \o FilterNodes(Tail(items), keyword)

ListNodesResponse(q) ==
    IF q.listErr
    THEN [returned |-> TRUE, err |-> TRUE, Code |-> 1, Success |-> FALSE,
          Nodes |-> <<>>]
    ELSE [returned |-> TRUE, err |-> FALSE, Code |-> 0, Success |-> TRUE,
          Nodes |-> FilterNodes(q.items, q.Keyword)]

ListNodes == RpcReturn("nodes", ListNodesResponse(rpcReq.nodes))

NextNodes == ListNodes

SpecNodes == InitRpcCall("nodes", NodesRequests) /\ [][NextNodes]_vars

\* the nodes whose name or InternalIP has the keyword as a substring
RECURSIVE MatchingNodes(_, _)
MatchingNodes(items, keyword) ==
    IF items = <<>> THEN <<>>
    ELSE (IF Contains(Head(items).Name, keyword)
             \/ Contains(Head(items).InternalIp, keyword)
          THEN <<Head(items)>> ELSE <<>>) \o MatchingNodes(Tail(items), keyword)

\* C28: ListNodes with an empty keyword returns every node, and with a
\* non-empty keyword returns exactly the nodes whose name or InternalIP
\* contains the keyword as a contiguous substring at any position.
KeywordIsSubstringMatch ==
    LET q == rpcReq.nodes
        a == rpcResp.nodes
    IN  (a.returned /\ a.Success) =>
            /\ q.Keyword = <<>> => a.Nodes = q.items
            /\ q.Keyword # <<>> => a.Nodes = MatchingNodes(q.items, q.Keyword)

=============================================================================
